---- MODULE Spec2Model ----
(***************************************************************************)
(* gh-licenses: scan files and directories for github.com references, look *)
(* each one up, group the references by License, merge the per-argument    *)
(* indexes and print the aggregate.  The model follows the latest revision *)
(* of main.go (the one with getLicenses / getLicensesFromDir /             *)
(* appendUnique), src/unnamed/part_001.                                    *)
(***************************************************************************)
EXTENDS Integers, Sequences, FiniteSets, TLC

(* ------------------------------- bounds -------------------------------- *)
MaxPaths == 4      \* paths of one run: its arguments and every directory entry below them
MaxLookups == 2    \* references looked up in one run
MaxRefs == 2       \* references of a file scanned on its own

(* ------------------------------ data model ----------------------------- *)
\* type License struct { Key, Name, URL }
License(k, n, u) == [Key |-> k, Name |-> n, URL |-> u]

\* License{} : the zero value getGithubLicense returns beside an error
ZeroLicense == License("", "", "")

MIT == License("mit", "MIT License", "https://api.github.com/licenses/mit")

Apache == License("apache-2.0", "Apache License 2.0", "")

\* repository references as getGithubRepos extracts them
Repos == {"github.com/foo/bar", "github.com/baz/qux"}

\* What one call of getGithubLicense meets: a transport or parse error
\* (ok = FALSE), or a decoded body.  The status code is never read, so an
\* error page without a "license" object decodes to the zero License with a
\* nil error.
Replies ==
  {[ok |-> FALSE, body |-> ZeroLicense]}
    \cup {[ok |-> TRUE, body |-> l] : l \in {MIT, Apache, ZeroLicense}}

\* the replies the walks of main meet: an error, or a license (a body
\* without a license gives the key an error gives, the zero License)
WalkReplies ==
  {[ok |-> FALSE, body |-> ZeroLicense]} \cup {[ok |-> TRUE, body |-> l] : l \in {MIT, Apache}}

\* one reference of a file, with the reply its lookup will get
Tokens(replies) == [repo : Repos, reply : replies]

SeqsUpTo(S, n) == UNION {[1..k -> S] : k \in 0..n}

\* A file as getLicensesFromFile meets it: whether os.Open succeeded, and the
\* references of its lines in scan order.
Files(replies, n) ==
  {[opened |-> FALSE, refs |-> <<>>]}
    \cup {[opened |-> TRUE, refs |-> s] : s \in SeqsUpTo(Tokens(replies), n)}

\* map[License][]string; a nil map is nil = TRUE
EmptyFn == [l \in {} |-> <<>>]

NilMap == [nil |-> TRUE, m |-> EmptyFn]

MakeMap(f) == [nil |-> FALSE, m |-> f]

Range(s) == {s[i] : i \in 1..Len(s)}

\* the entries of an index, a nil map having none
Entries(idx) == IF idx.nil THEN EmptyFn ELSE idx.m

\* the (license, reference) pairs of an index
Pairs(idx) == {<<l, r>> \in (DOMAIN Entries(idx)) \X Repos : r \in Range(Entries(idx)[l])}

\* the repository sets of an index
Content(idx) == [l \in DOMAIN Entries(idx) |-> Range(Entries(idx)[l])]

NoDuplicates(s) == \A i, j \in 1..Len(s) : s[i] = s[j] => i = j

(* ---------------------------- pure functions --------------------------- *)
\* func getGithubLicense(repo) (License, error)
getGithubLicense(repo, reply) ==
  IF ~reply.ok
    THEN [license |-> ZeroLicense, err |-> TRUE]
    ELSE [license |-> reply.body, err |-> FALSE]

\* func appendUnique(currentStrings, newStrings...)
appendUnique(currentStrings, newStrings) ==
  currentStrings
    \o SelectSeq(newStrings, LAMBDA s : \A i \in 1..Len(currentStrings) : currentStrings[i] # s)

\* m[k] of a Go map: the nil slice for a missing key
At(f, k) == IF k \in DOMAIN f THEN f[k] ELSE <<>>

\* mergeMaps with a wrong guard: either map nil yields a fresh empty map
mergeMapsEitherNil(map1, map2) ==
  IF map1.nil \/ map2.nil THEN MakeMap(EmptyFn)
  ELSE MakeMap([key \in DOMAIN map1.m \cup DOMAIN map2.m |->
         IF key \notin DOMAIN map2.m THEN map1.m[key]
         ELSE IF At(map1.m, key) = <<>> THEN map2.m[key]
         ELSE appendUnique(map1.m[key], map2.m[key])])

\* mergeMaps that returns a fresh map, not map1, when map2 is nil
mergeMapsDropMap1(map1, map2) ==
  IF map1.nil /\ map2.nil THEN MakeMap(EmptyFn)
  ELSE IF map1.nil THEN map2
  ELSE IF map2.nil THEN MakeMap(EmptyFn)
  ELSE MakeMap([key \in DOMAIN map1.m \cup DOMAIN map2.m |->
         IF key \notin DOMAIN map2.m THEN map1.m[key]
         ELSE IF At(map1.m, key) = <<>> THEN map2.m[key]
         ELSE appendUnique(map1.m[key], map2.m[key])])

\* mergeMaps that overwrites a shared key: merged[key] = val
mergeMapsOverwrite(map1, map2) ==
  IF map1.nil /\ map2.nil THEN MakeMap(EmptyFn)
  ELSE IF map1.nil THEN map2
  ELSE IF map2.nil THEN map1
  ELSE MakeMap([key \in DOMAIN map1.m \cup DOMAIN map2.m |->
         IF key \notin DOMAIN map2.m THEN map1.m[key] ELSE map2.m[key]])

\* mergeMaps without its first guard: the merge of nil and nil is nil
mergeMapsNilNil(map1, map2) ==
  IF map1.nil THEN map2
  ELSE IF map2.nil THEN map1
  ELSE MakeMap([key \in DOMAIN map1.m \cup DOMAIN map2.m |->
         IF key \notin DOMAIN map2.m THEN map1.m[key]
         ELSE IF At(map1.m, key) = <<>> THEN map2.m[key]
         ELSE appendUnique(map1.m[key], map2.m[key])])

\* func mergeMaps(map1, map2)
mergeMaps(map1, map2) ==
  IF map1.nil /\ map2.nil THEN MakeMap(EmptyFn)
  ELSE IF map1.nil THEN map2
  ELSE IF map2.nil THEN map1
  ELSE MakeMap([key \in DOMAIN map1.m \cup DOMAIN map2.m |->
         IF key \notin DOMAIN map2.m THEN map1.m[key]
         ELSE IF At(map1.m, key) = <<>> THEN map2.m[key]
         ELSE appendUnique(map1.m[key], map2.m[key])])

\* licenses[license] = append(licenses[license], repo)
AppendRepo(f, license, repo) ==
  [l \in DOMAIN f \cup {license} |->
     IF l = license THEN Append(At(f, l), repo) ELSE f[l]]

\* the scan loop of getLicensesFromFile over the references still to come
RECURSIVE ScanLoop(_, _)
ScanLoop(f, refs) ==
  IF refs = <<>> THEN f
  ELSE LET looked == getGithubLicense(Head(refs).repo, Head(refs).reply)
       IN  ScanLoop(AppendRepo(f, looked.license, Head(refs).repo), Tail(refs))

\* a scan loop that returns at the first failing lookup
RECURSIVE ScanLoopAbort(_, _)
ScanLoopAbort(f, refs) ==
  IF refs = <<>> THEN f
  ELSE LET looked == getGithubLicense(Head(refs).repo, Head(refs).reply)
       IN  IF looked.err THEN f
           ELSE ScanLoopAbort(AppendRepo(f, looked.license, Head(refs).repo), Tail(refs))

getLicensesFromFileAbort(file) ==
  IF ~file.opened THEN MakeMap(EmptyFn)
  ELSE MakeMap(ScanLoopAbort(EmptyFn, file.refs))

\* func getLicensesFromFile(filename)
getLicensesFromFile(file) ==
  IF ~file.opened THEN MakeMap(EmptyFn)
  ELSE MakeMap(ScanLoop(EmptyFn, file.refs))

(* ------------------------------- state --------------------------------- *)
VARIABLES
  pc,         \* main: "start", "loop" (the range over args), "done", "exit"
  nargs,      \* len(os.Args[1:])
  argi,       \* arguments walked and merged so far
  licenses,   \* main's aggregate
  stack,      \* the getLicensesFromDir calls in progress, innermost last
  exitCode,   \* the status of os.Exit, -1 while the process runs
  usage,      \* the usage message was printed
  walked,     \* getLicenses was called
  paths,      \* paths the run is known to hold: arguments and listed entries
  lookups,    \* calls of getGithubLicense
  printed,    \* calls of prettyPrintLicenses
  shown,      \* the index prettyPrintLicenses received
  shadow,     \* main's aggregate of the run without its failing paths
  scanned,    \* the pairs the file scans below main resolved
  pathFailed, \* some path failed: its stat, its listing or its open
  fnArgs,     \* the arguments of a function called on its own
  fnOut,      \* what it returned
  fnpc        \* "idle", "init", "pair", "done"

mainVars ==
  <<pc, nargs, argi, licenses, stack, exitCode, usage, walked, paths,
    lookups, printed, shown, shadow, scanned, pathFailed>>

fnVars == <<fnArgs, fnOut, fnpc>>

vars == <<mainVars, fnVars>>

\* A getLicensesFromDir call: the entries of the listing still to walk, its
\* local licenses, and the same two ghosts main carries.
Frame(left, lic, sh, sc) ==
  [left |-> left, licenses |-> lic, shadow |-> sh, scanned |-> sc]

Top == stack[Len(stack)]

\* the state of main before it runs, but for pc, nargs and paths
MainFresh ==
  /\ argi = 0
  /\ licenses = NilMap
  /\ stack = <<>>
  /\ exitCode = -1
  /\ usage = FALSE
  /\ walked = FALSE
  /\ lookups = 0
  /\ printed = 0
  /\ shown = NilMap
  /\ shadow = NilMap
  /\ scanned = {}
  /\ pathFailed = FALSE

Init ==
  /\ pc = "start"
  /\ nargs \in 0..MaxPaths
  /\ paths = nargs
  /\ MainFresh
  /\ fnArgs = <<>>
  /\ fnOut = <<>>
  /\ fnpc = "idle"

(* ------------------------------- main ---------------------------------- *)
\* main without its os.Exit: the check prints and falls through to the range
MainCheckArgsNoExit ==
  /\ pc = "start"
  /\ usage' = (nargs = 0)
  /\ pc' = "loop"
  /\ licenses' = NilMap
  /\ UNCHANGED <<nargs, paths, argi, stack, exitCode, walked, lookups, printed, shown, shadow,
                 scanned, pathFailed>>
  /\ UNCHANGED fnVars

\* main, lines 28-35: the argument check and the declaration of licenses
MainCheckArgs ==
  /\ pc = "start"
  /\ IF nargs = 0
       THEN /\ usage' = TRUE
            /\ exitCode' = 1
            /\ pc' = "exit"
       ELSE /\ pc' = "loop"
            /\ UNCHANGED <<usage, exitCode>>
  /\ licenses' = NilMap
  /\ UNCHANGED <<nargs, paths, argi, stack, walked, lookups, printed, shown, shadow, scanned,
                 pathFailed>>
  /\ UNCHANGED fnVars

\* a getLicenses call is due: main's range has an argument left, or the
\* innermost directory has an entry left
CallDue ==
  /\ pc = "loop"
  /\ IF stack = <<>> THEN argi < nargs ELSE Top.left > 0

\* newLicenses := getLicenses(...); licenses = mergeMaps(licenses, newLicenses)
\* in the caller: main (lines 38-39) or getLicensesFromDir (lines 106-107).
\* failed: the path itself failed; pairs: what the file scans below resolved.
Merge(newLicenses, newShadow, pairs, failed) ==
  /\ pathFailed' = (pathFailed \/ failed)
  /\ IF stack = <<>>
       THEN /\ licenses' = mergeMaps(licenses, newLicenses)
            /\ shadow' = IF failed THEN shadow ELSE mergeMaps(shadow, newShadow)
            /\ scanned' = scanned \cup pairs
            /\ argi' = argi + 1
            /\ UNCHANGED stack
       ELSE /\ stack' =
                 [stack EXCEPT ![Len(stack)] =
                    Frame(Top.left - 1,
                          mergeMaps(Top.licenses, newLicenses),
                          IF failed THEN Top.shadow ELSE mergeMaps(Top.shadow, newShadow),
                          Top.scanned \cup pairs)]
            /\ UNCHANGED <<licenses, shadow, scanned, argi>>

\* getLicenses, lines 46-50: isDir fails
GetLicensesStatError ==
  /\ CallDue
  /\ Merge(NilMap, NilMap, {}, TRUE)
  /\ walked' = TRUE
  /\ UNCHANGED <<pc, nargs, paths, exitCode, usage, lookups, printed, shown>>
  /\ UNCHANGED fnVars

\* getLicenses on a regular file, lines 57-62
GetLicensesFile ==
  /\ CallDue
  /\ \E file \in Files(WalkReplies, MaxLookups - lookups) :
       LET newLicenses == mergeMaps(NilMap, getLicensesFromFile(file))
       IN  /\ Merge(newLicenses, newLicenses, Pairs(newLicenses), ~file.opened)
           /\ lookups' = lookups + Len(file.refs)
  /\ walked' = TRUE
  /\ UNCHANGED <<pc, nargs, paths, exitCode, usage, printed, shown>>
  /\ UNCHANGED fnVars

\* getLicenses on a directory whose listing fails: getLicensesFromDir returns
\* nil (lines 97-101) and getLicenses the merge of nil and nil (lines 54-62)
GetLicensesDirReadError ==
  /\ CallDue
  /\ Merge(mergeMaps(NilMap, NilMap), NilMap, {}, TRUE)
  /\ walked' = TRUE
  /\ UNCHANGED <<pc, nargs, paths, exitCode, usage, lookups, printed, shown>>
  /\ UNCHANGED fnVars

\* getLicenses on a directory: getLicensesFromDir lists it and starts its
\* range with licenses nil (lines 97-105)
GetLicensesDirEnter ==
  /\ CallDue
  /\ \E n \in 0..(MaxPaths - paths) :
       /\ stack' = Append(stack, Frame(n, NilMap, NilMap, {}))
       /\ paths' = paths + n
  /\ walked' = TRUE
  /\ UNCHANGED <<pc, nargs, argi, licenses, exitCode, usage, lookups, printed, shown,
                 shadow, scanned, pathFailed>>
  /\ UNCHANGED fnVars

\* the range of getLicensesFromDir is over: it returns licenses (line 110),
\* getLicenses merges that into its nil licenses and returns (lines 55-62),
\* and the caller merges the result
GetLicensesDirReturn ==
  /\ pc = "loop"
  /\ stack # <<>>
  /\ Top.left = 0
  /\ LET f == Top
         caller == SubSeq(stack, 1, Len(stack) - 1)
         newLicenses == mergeMaps(NilMap, f.licenses)
         newShadow == mergeMaps(NilMap, f.shadow)
     IN  IF caller = <<>>
           THEN /\ licenses' = mergeMaps(licenses, newLicenses)
                /\ shadow' = mergeMaps(shadow, newShadow)
                /\ scanned' = scanned \cup f.scanned
                /\ argi' = argi + 1
                /\ stack' = caller
           ELSE /\ stack' =
                     [caller EXCEPT ![Len(caller)] =
                        Frame(caller[Len(caller)].left - 1,
                              mergeMaps(caller[Len(caller)].licenses, newLicenses),
                              mergeMaps(caller[Len(caller)].shadow, newShadow),
                              caller[Len(caller)].scanned \cup f.scanned)]
                /\ UNCHANGED <<licenses, shadow, scanned, argi>>
  /\ UNCHANGED <<pc, nargs, paths, exitCode, usage, walked, lookups, printed, shown, pathFailed>>
  /\ UNCHANGED fnVars

\* main, line 42: prettyPrintLicenses(licenses), then main returns
MainPrint ==
  /\ pc = "loop"
  /\ stack = <<>>
  /\ argi = nargs
  /\ printed' = printed + 1
  /\ shown' = licenses
  /\ exitCode' = 0
  /\ pc' = "done"
  /\ UNCHANGED <<nargs, paths, argi, licenses, stack, usage, walked, lookups, shadow, scanned,
                 pathFailed>>
  /\ UNCHANGED fnVars

Next ==
  \/ MainCheckArgs
  \/ GetLicensesStatError
  \/ GetLicensesFile
  \/ GetLicensesDirReadError
  \/ GetLicensesDirEnter
  \/ GetLicensesDirReturn
  \/ MainPrint

Spec == Init /\ [][Next]_vars

\* The program is one sequential flow: a step that is due is taken.
FairSpec == Spec /\ WF_vars(Next)


(* ------------------- mergeMaps called on its own ----------------------- *)
\* the replies behind the indexes mergeMaps is called on
MergeReplies == {[ok |-> FALSE, body |-> ZeroLicense], [ok |-> TRUE, body |-> MIT]}

\* the maps a caller holds: nil, and what a file scan returns
Indexes ==
  {NilMap} \cup {getLicensesFromFile(file) : file \in Files(MergeReplies, MaxRefs)}

MainOff ==
  /\ pc = "off"
  /\ nargs = 0
  /\ paths = 0
  /\ MainFresh

MergeInit ==
  /\ MainOff
  /\ fnArgs \in [a : Indexes, b : Indexes, c : Indexes]
  /\ fnOut = <<>>
  /\ fnpc = "init"

\* mergeMaps(a, b) and mergeMaps(b, a)
MergePair ==
  /\ fnpc = "init"
  /\ fnOut' = [ab |-> mergeMaps(fnArgs.a, fnArgs.b), ba |-> mergeMaps(fnArgs.b, fnArgs.a)]
  /\ fnpc' = "pair"
  /\ UNCHANGED fnArgs
  /\ UNCHANGED mainVars

\* the two ways of folding a, b and c
MergeFold ==
  /\ fnpc = "pair"
  /\ fnOut' = [ab |-> fnOut.ab, ba |-> fnOut.ba,
               left |-> mergeMaps(fnOut.ab, fnArgs.c),
               right |-> mergeMaps(fnArgs.a, mergeMaps(fnArgs.b, fnArgs.c))]
  /\ fnpc' = "folded"
  /\ UNCHANGED fnArgs
  /\ UNCHANGED mainVars

MergeNext == MergePair \/ MergeFold

MergeSpec == MergeInit /\ [][MergeNext]_vars

(* --------------- getLicensesFromFile called on its own ----------------- *)
ScanInit ==
  /\ MainOff
  /\ fnArgs \in Files(Replies, MaxRefs)
  /\ fnOut = <<>>
  /\ fnpc = "init"

ScanFile ==
  /\ fnpc = "init"
  /\ fnOut' = getLicensesFromFile(fnArgs)
  /\ fnpc' = "scanned"
  /\ UNCHANGED fnArgs
  /\ UNCHANGED mainVars

ScanNext == ScanFile

ScanSpec == ScanInit /\ [][ScanNext]_vars

(* ------------------------------ claims --------------------------------- *)
\* C1: for present indexes a and b, mergeMaps(a, b) has exactly the licenses
\* of a and b; a license of one input only keeps that input's list; a shared
\* license gets the union of the two lists, with no reference twice.
C1_MergeUnionNoDuplicates ==
  (fnpc # "init" /\ ~fnArgs.a.nil /\ ~fnArgs.b.nil) =>
    LET a == fnArgs.a.m
        b == fnArgs.b.m
        r == fnOut.ab
    IN  /\ ~r.nil
        /\ DOMAIN r.m = DOMAIN a \cup DOMAIN b
        /\ \A l \in DOMAIN a \ DOMAIN b : r.m[l] = a[l]
        /\ \A l \in DOMAIN b \ DOMAIN a : r.m[l] = b[l]
        /\ \A l \in DOMAIN a \cap DOMAIN b :
             /\ Range(r.m[l]) = Range(a[l]) \cup Range(b[l])
             /\ NoDuplicates(r.m[l])

\* the part of C1 that does not speak of duplicates
C1_MergeUnion ==
  (fnpc # "init" /\ ~fnArgs.a.nil /\ ~fnArgs.b.nil) =>
    LET a == fnArgs.a.m
        b == fnArgs.b.m
        r == fnOut.ab
    IN  /\ ~r.nil
        /\ DOMAIN r.m = DOMAIN a \cup DOMAIN b
        /\ \A l \in DOMAIN a \ DOMAIN b : r.m[l] = a[l]
        /\ \A l \in DOMAIN b \ DOMAIN a : r.m[l] = b[l]
        /\ \A l \in DOMAIN a \cap DOMAIN b :
             Range(r.m[l]) = Range(a[l]) \cup Range(b[l])

\* C3: a reference whose lookup failed is skipped: the index a file scan
\* returns holds only the licenses and references its successful lookups
\* returned.
C3_FailedLookupSkipped ==
  fnpc = "scanned" =>
    LET ok == {i \in 1..Len(fnArgs.refs) : fnArgs.refs[i].reply.ok}
    IN  /\ DOMAIN fnOut.m = {fnArgs.refs[i].reply.body : i \in ok}
        /\ Pairs(fnOut) = {<<fnArgs.refs[i].reply.body, fnArgs.refs[i].repo>> : i \in ok}

C5_NilIsNeutral ==
  (fnpc # "init" /\ fnArgs.a.nil) =>
    /\ Entries(fnOut.ab) = Entries(fnArgs.b)
    /\ Entries(fnOut.ba) = Entries(fnArgs.b)
    /\ fnArgs.b.nil => (fnOut.ab = MakeMap(EmptyFn) /\ ~fnOut.ab.nil)
    /\ ~fnArgs.b.nil => (fnOut.ab = fnArgs.b /\ fnOut.ba = fnArgs.b)

\* nil was merged with a map that has entries
C5_Witness ==
  /\ fnpc = "pair"
  /\ fnArgs.a.nil
  /\ ~fnArgs.b.nil
  /\ DOMAIN fnArgs.b.m # {}
  /\ fnOut.ba = fnArgs.b

\* C6: mergeMaps is commutative and associative on content: both orders, and
\* both groupings, map the same licenses to the same repository sets.
C6_MergeCommutativeAssociative ==
  /\ fnpc # "init" => Content(fnOut.ab) = Content(fnOut.ba)
  /\ fnpc = "folded" => Content(fnOut.left) = Content(fnOut.right)

\* three maps sharing a license were folded both ways, the lists coming out
\* in different orders
C6_Witness ==
  /\ fnpc = "folded"
  /\ ~fnArgs.a.nil /\ ~fnArgs.b.nil /\ ~fnArgs.c.nil
  /\ MIT \in DOMAIN fnArgs.a.m \cap DOMAIN fnArgs.b.m \cap DOMAIN fnArgs.c.m
  /\ fnOut.ab # fnOut.ba
  /\ Cardinality(Range(fnOut.left.m[MIT])) = 2


\* the frames of the directory walks in progress, main's range first
Holders ==
  {[licenses |-> licenses, shadow |-> shadow, scanned |-> scanned]}
    \cup {[licenses |-> stack[i].licenses, shadow |-> stack[i].shadow,
           scanned |-> stack[i].scanned] : i \in 1..Len(stack)}

\* C2: no repository reference is listed twice under a license of the
\* aggregate prettyPrintLicenses receives.
C2_ReportHasNoDuplicates ==
  pc = "done" => \A l \in DOMAIN Entries(shown) : NoDuplicates(Entries(shown)[l])

\* C7: a failing path (stat, listing or open) contributes no entry, and each
\* index of the run holds exactly the entries, lists included, it holds in
\* the run without the failing paths.
C7_FailingPathIsolated ==
  /\ \A h \in Holders : Entries(h.licenses) = Entries(h.shadow)
  /\ pc = "done" => Entries(shown) = Entries(shadow)

\* a finished run of two or more arguments in which a path failed and the
\* report still has entries
C7_Witness ==
  /\ pc = "done"
  /\ pathFailed
  /\ nargs >= 2
  /\ DOMAIN Entries(shown) # {}

\* C8: with no argument main prints the usage and exits with status 1
\* before any walk, lookup or report; with an argument it never does.
C8_ZeroArgumentsIsFatal ==
  /\ pc = "exit" =>
       (nargs = 0 /\ usage /\ exitCode = 1 /\ ~walked /\ lookups = 0 /\ printed = 0)
  /\ (nargs = 0 /\ pc # "start") => pc = "exit"
  /\ nargs >= 1 => (pc # "exit" /\ ~usage /\ exitCode \in {-1, 0})

\* the run without arguments has exited
C8_Witness == pc = "exit" /\ nargs = 0 /\ exitCode = 1

\* C9: the index a directory walk holds, and returns, is the union of the
\* file scans in its tree: the same licenses and, per license, the same
\* references; two scans of one distinct license each give two entries.
C9_DirectoryIsUnionOfScans ==
  /\ \A h \in Holders :
       /\ Pairs(h.licenses) = h.scanned
       /\ DOMAIN Entries(h.licenses) = {p[1] : p \in h.scanned}
  /\ pc = "done" => Pairs(shown) = scanned

\* a directory inside a directory has walked all its entries and holds one
\* reference under each of two licenses
C9_Witness ==
  /\ Len(stack) = 2
  /\ Top.left = 0
  /\ lookups = 2
  /\ ~Top.licenses.nil
  /\ DOMAIN Top.licenses.m = {MIT, Apache}
  /\ Cardinality(Top.scanned) = 2

====
